---------------------------- MODULE Spec2Model ----------------------------
(***************************************************************************)
(* EM fitting of a Gaussian/Exponential mixture, as implemented in         *)
(* src/gaussian_exponential_mixture.py.                                    *)
(*                                                                         *)
(* Floating-point numbers are modelled as fixed-point integers: the value  *)
(* v stands for the real v / Scale, and every product and quotient rounds   *)
(* (downwards) to that grid, as a float operation rounds to its own grid.   *)
(* NaN and the two infinities are values of their own with the IEEE rules:  *)
(* NaN is absorbing in arithmetic and every ordered comparison with it is   *)
(* false.                                                                   *)
(***************************************************************************)
EXTENDS Integers, Sequences, FiniteSets

\* ------------------------------------------------------------------ bounds
\* Resolution of the fixed-point grid (units per 1.0).
Scale == 100
\* Longest data vector drawn at construction.
MaxN == 2
\* Largest max_iterations drawn at construction.
MaxIter == 3
\* Number of fit() calls made on one estimator.
MaxFits == 2

\* ---------------------------------------------------------- float values
\* np.nan, and the results of x / 0 for x # 0.
NaN == 1000000000
PInf == 1000000001
NInf == 1000000002

IsNaN(v) == v = NaN
IsInf(v) == v = PInf \/ v = NInf
IsFinite(v) == ~IsNaN(v) /\ ~IsInf(v)

\* Sign of a non-NaN value: -1, 0, 1.
Sgn(v) == IF v = PInf THEN 1
          ELSE IF v = NInf THEN -1
          ELSE IF v > 0 THEN 1
          ELSE IF v < 0 THEN -1 ELSE 0

InfOf(s) == IF s > 0 THEN PInf ELSE NInf

Neg(v) == IF IsNaN(v) THEN NaN
          ELSE IF v = PInf THEN NInf
          ELSE IF v = NInf THEN PInf
          ELSE 0 - v

\* a + b
Add(a, b) == IF IsNaN(a) \/ IsNaN(b) THEN NaN
             ELSE IF IsInf(a) /\ IsInf(b) THEN (IF a = b THEN a ELSE NaN)
             ELSE IF IsInf(a) THEN a
             ELSE IF IsInf(b) THEN b
             ELSE a + b

\* a - b
Sub(a, b) == Add(a, Neg(b))

\* a * b
Mul(a, b) == IF IsNaN(a) \/ IsNaN(b) THEN NaN
             ELSE IF IsInf(a) \/ IsInf(b)
                  THEN (IF Sgn(a) * Sgn(b) = 0 THEN NaN ELSE InfOf(Sgn(a) * Sgn(b)))
             ELSE (a * b) \div Scale

\* a / b, the float division of numpy scalars: 0/0 is nan and x/0 is +-inf,
\* with a warning and no exception.
Div(a, b) == IF IsNaN(a) \/ IsNaN(b) THEN NaN
             ELSE IF IsInf(a) /\ IsInf(b) THEN NaN
             ELSE IF IsInf(a) THEN InfOf(Sgn(a) * (IF Sgn(b) < 0 THEN -1 ELSE 1))
             ELSE IF IsInf(b) THEN 0
             ELSE IF b = 0 THEN (IF a = 0 THEN NaN ELSE InfOf(Sgn(a)))
             ELSE IF b > 0 THEN (a * Scale) \div b
             ELSE ((0 - a) * Scale) \div (0 - b)

\* abs(a)
Abs(a) == IF IsNaN(a) THEN NaN
          ELSE IF IsInf(a) THEN PInf
          ELSE IF a < 0 THEN 0 - a ELSE a

\* a > b; false whenever either side is NaN.
Gt(a, b) == IF IsNaN(a) \/ IsNaN(b) THEN FALSE
            ELSE IF a = b THEN FALSE
            ELSE IF a = PInf \/ b = NInf THEN TRUE
            ELSE IF a = NInf \/ b = PInf THEN FALSE
            ELSE a > b

\* Integer square root by bisection: the r in lo..hi with r*r <= n < (r+1)^2.
RECURSIVE ISqrt(_, _, _)
ISqrt(n, lo, hi) ==
    IF lo >= hi THEN lo
    ELSE LET mid == (lo + hi + 1) \div 2
         IN  IF mid * mid <= n THEN ISqrt(n, mid, hi) ELSE ISqrt(n, lo, mid - 1)

\* Whether math.sqrt(v) raises ValueError (math domain error).
SqrtRaises(v) == ~IsNaN(v) /\ Sgn(v) < 0

\* math.sqrt(v) where it returns: nan for nan, inf for inf.
Sqrt(v) == IF IsNaN(v) THEN NaN
           ELSE IF v = PInf THEN PInf
           ELSE IF v <= 0 THEN 0
           ELSE ISqrt(v * Scale, 0, v * Scale)

\* exp(-t) for t >= 0 by the rational approximation 1 / (1 + t + t^2/2),
\* which is 1 at 0, strictly decreasing, and below the grid's resolution
\* (so 0) for large t.
ExpNeg(t) == IF t >= 40 * Scale THEN 0
             ELSE Div(Scale, Scale + t + (Mul(t, t) \div 2))

\* a == b on floats; false whenever either side is NaN (so x == np.nan is
\* false for every x, NaN included).
Eq(a, b) == IF IsNaN(a) \/ IsNaN(b) THEN FALSE ELSE a = b

\* ------------------------------------------------- external densities
\* A frozen scipy distribution is the pair of its loc and scale.
Frozen(loc, scale) == [loc |-> loc, scale |-> scale]

\* stats.norm(loc, scale).pdf(x): nan for an invalid scale or a nan
\* argument, else exp(-z^2/2) / (scale * sqrt(2 pi)), z = (x - loc)/scale,
\* with 1/sqrt(2 pi) taken as 2/5.
norm_pdf(d, x) ==
    IF IsNaN(d.loc) \/ IsNaN(d.scale) \/ IsNaN(x) THEN NaN
    ELSE IF Sgn(d.scale) <= 0 THEN NaN
    ELSE IF IsInf(d.loc) \/ IsInf(d.scale) \/ IsInf(x) THEN 0
    ELSE LET z == Div(x - d.loc, d.scale)
         IN  IF Abs(z) >= 9 * Scale THEN 0
             ELSE Div(Mul(ExpNeg(Mul(z, z) \div 2), (2 * Scale) \div 5), d.scale)

\* stats.expon(loc, scale).pdf(x): nan for an invalid scale or a nan
\* argument, 0 below loc, else exp(-(x - loc)/scale) / scale.
expon_pdf(d, x) ==
    IF IsNaN(d.loc) \/ IsNaN(d.scale) \/ IsNaN(x) THEN NaN
    ELSE IF Sgn(d.scale) <= 0 THEN NaN
    ELSE IF IsInf(d.loc) \/ IsInf(d.scale) \/ IsInf(x) THEN 0
    ELSE IF x < d.loc THEN 0
    ELSE Div(ExpNeg(Div(x - d.loc, d.scale)), d.scale)

\* Log-densities are represented by the density they are the logarithm of
\* (log is strictly increasing, so every comparison of two log-densities is
\* the comparison of these): log 1 = 0 is Scale, and -inf is NInf.
\* stats.norm(loc, scale).logpdf(x) is finite wherever the pdf is defined.
norm_logpdf(d, x) == norm_pdf(d, x)

\* stats.expon(loc, scale).logpdf(x): -inf below loc.
expon_logpdf(d, x) ==
    IF IsNaN(expon_pdf(d, x)) THEN NaN
    ELSE IF x < d.loc THEN NInf
    ELSE expon_pdf(d, x)

\* np.nan_to_num of a log-density: nan becomes 0 (the log of 1), -inf the
\* most negative finite float (below every finite log-density) and +inf the
\* largest one.
nan_to_num(l) == IF IsNaN(l) THEN Scale
                 ELSE IF l = NInf THEN 0 - 1
                 ELSE IF l = PInf THEN NaN - 1
                 ELSE l

\* ------------------------------------------------------------- the state
VARIABLES
    data,                   \* self.data, a sequence of floats
    exp_loc,                \* self._exp_loc
    max_iterations,         \* self.max_iterations
    convergence_tolerance,  \* self.convergence_tolerance
    heap,                   \* the GaussianExponentialParameters objects, by identity
    parameters,             \* self.parameters: the object it refers to
    parameters_updated,     \* self.parameters_updated: the object it refers to
    norm,                   \* self.norm, a frozen distribution
    expon,                  \* self.expon, a frozen distribution
    pc,                     \* where fit() stands: idle, em_step, while, return, raised
    ip,                     \* inside _em_step: the index of the next call
    iters,                  \* fit()'s local iters
    \* history, read by the properties only
    steps,                  \* EM steps completed by the current or last fit()
    fits,                   \* fit() calls that have returned
    total_steps,            \* EM steps completed since construction
    entry,                  \* densities and parameters_updated at the last step's entry
    trace,                  \* the calls made so far by the current or last step
    resp,                   \* the responsibilities last computed, one per point
    resp_sum,               \* the denominator of the last mu update
    stop_dist,              \* the distance fit()'s loop test last evaluated
    first_step,             \* parameters_updated after the first step of this fit()
    last_step,              \* parameters_updated as the last completed step left it
    prev_fit                \* at the current fit() call's entry: the parameters, and how
                            \* the call before it (if any: valid) had ended

vars == <<data, exp_loc, max_iterations, convergence_tolerance, heap, parameters,
          parameters_updated, norm, expon, pc, ip, iters, steps, fits, total_steps,
          entry, trace, resp, resp_sum, stop_dist, first_step, last_step, prev_fit>>

inputs == <<data, exp_loc, max_iterations, convergence_tolerance>>

\* The two object identities the estimator ever holds at once.
Objs == {"a", "b"}

\* The object self.parameters / self.parameters_updated refers to.
P == heap[parameters]
PU == heap[parameters_updated]

\* GaussianExponentialParameters(beta, mu, sigma, proportion)
GaussianExponentialParameters(beta, mu, sigma, proportion) ==
    [beta |-> beta, mu |-> mu, sigma |-> sigma, proportion |-> proportion]

\* as_list
as_list(q) == <<q.beta, q.mu, q.sigma, q.proportion>>

\* Python's max over a non-empty list: the first element, replaced by each
\* later element that compares greater than the running maximum.
RECURSIVE PyMax(_, _, _)
PyMax(s, i, best) ==
    IF i > Len(s) THEN best
    ELSE PyMax(s, i + 1, IF Gt(s[i], best) THEN s[i] ELSE best)

\* max_parameter_difference
max_parameter_difference(self, other) ==
    LET diffs == [i \in 1..4 |-> Abs(Sub(as_list(self)[i], as_list(other)[i]))]
    IN  PyMax(diffs, 2, diffs[1])

\* Python's sum over a sequence: 0 + s[1] + s[2] + ...
RECURSIVE PySum(_, _, _)
PySum(s, i, acc) ==
    IF i > Len(s) THEN acc ELSE PySum(s, i + 1, Add(acc, s[i]))

\* The values in self.data.
Points == {data[i] : i \in 1..Len(data)}

\* _apply_and_sum: func (a function of a point's value) over every point of
\* self.data, summed.
apply_and_sum(func) ==
    PySum([i \in 1..Len(data) |-> func[data[i]]], 1, 0)

\* _expectation_is_gaussian with the two NaN guards made effective (np.isnan).
ExpectationIsGaussian_isnan(nd, ed, prop, val) ==
    LET gaussian_density == norm_pdf(nd, val)
        exponential_density == expon_pdf(ed, val)
        probability_gaussian == Mul(gaussian_density, prop)
        probability_exponential == Mul(exponential_density, Sub(Scale, prop))
    IN  IF IsNaN(exponential_density) THEN Scale
        ELSE IF IsNaN(gaussian_density) THEN 0
        ELSE IF Eq(prop, 0) THEN 0
        ELSE Div(probability_gaussian, Add(probability_gaussian, probability_exponential))

\* _expectation_is_gaussian under the frozen densities nd, ed and the
\* proportion prop. The two comparisons with np.nan are never true.
ExpectationIsGaussian(nd, ed, prop, val) ==
    LET gaussian_density == norm_pdf(nd, val)
        exponential_density == expon_pdf(ed, val)
        probability_gaussian == Mul(gaussian_density, prop)
        probability_exponential == Mul(exponential_density, Sub(Scale, prop))
    IN  IF Eq(exponential_density, NaN) THEN Scale
        ELSE IF Eq(gaussian_density, NaN) THEN 0
        ELSE IF Eq(prop, 0) THEN 0
        ELSE Div(probability_gaussian, Add(probability_gaussian, probability_exponential))

\* self._expectation_is_gaussian(val) in the current state.
expectation_is_gaussian(val) ==
    ExpectationIsGaussian(norm, expon, P.proportion, val)

\* The value _update_beta writes, under the given densities and proportion.
BetaUpdate(nd, ed, prop) ==
    Div(apply_and_sum([x \in Points |-> Mul(Sub(Scale, ExpectationIsGaussian(nd, ed, prop, x)), x)]),
        apply_and_sum([x \in Points |-> Sub(Scale, ExpectationIsGaussian(nd, ed, prop, x))]))

\* The denominator of _update_mu and _update_sigma: the summed responsibilities.
RespSum(nd, ed, prop) ==
    apply_and_sum([x \in Points |-> ExpectationIsGaussian(nd, ed, prop, x)])

\* _update_mu with a guard on a zero denominator, writing 0.0 instead.
MuUpdate_guarded(nd, ed, prop) ==
    IF Eq(RespSum(nd, ed, prop), 0) THEN 0
    ELSE Div(apply_and_sum([x \in Points |-> Mul(ExpectationIsGaussian(nd, ed, prop, x), x)]),
             RespSum(nd, ed, prop))

\* The value _update_mu writes.
MuUpdate(nd, ed, prop) ==
    Div(apply_and_sum([x \in Points |-> Mul(ExpectationIsGaussian(nd, ed, prop, x), x)]),
        RespSum(nd, ed, prop))

\* sigma_squared of _update_sigma, around the mean mu.
SigmaSquared(nd, ed, prop, mu) ==
    Div(apply_and_sum([x \in Points |-> Mul(ExpectationIsGaussian(nd, ed, prop, x),
                                    Mul(Sub(x, mu), Sub(x, mu)))]),
        RespSum(nd, ed, prop))

\* gaussian_total of _update_proportion: the points whose Gaussian
\* log-density exceeds their exponential one.
GaussianTotal(nd, ed) ==
    Cardinality({i \in 1..Len(data) :
        Gt(nan_to_num(norm_logpdf(nd, data[i])), nan_to_num(expon_logpdf(ed, data[i])))})

\* The textbook soft update: the mean responsibility under the given densities.
ProportionUpdate_soft(nd, ed) ==
    Div(RespSum(nd, ed, P.proportion), Len(data) * Scale)

\* The value _update_proportion writes: gaussian_total / len(self.data).
ProportionUpdate(nd, ed) ==
    Div(GaussianTotal(nd, ed) * Scale, Len(data) * Scale)

\* The responsibilities of all points in the current state.
Responsibilities == [i \in 1..Len(data) |-> expectation_is_gaussian(data[i])]

\* ------------------------------------------------------- construction
\* Values drawn at construction, on the grid.
DataVals == {Scale \div 5, Scale, 5 * Scale}
DataSets == UNION {[1..n -> DataVals] : n \in 1..MaxN}
ExpLocs == {0, Scale}
Tolerances == {Scale \div 20, Scale \div 10}
Betas == {Scale \div 5, Scale}
Mus == {0, 5 * Scale}
Sigmas == {Scale \div 10, Scale}
Proportions == {0, Scale \div 4, Scale \div 2, Scale}

NoParams == GaussianExponentialParameters(0, 0, 0, 0)
NoFit == [valid |-> FALSE, result |-> NoParams, dist |-> 0, steps |-> 0]

\* GaussianExponentialMixture.__init__: two parameter objects built from the
\* same keyword arguments, and the two densities frozen at those values.
Init ==
    /\ data \in DataSets
    /\ exp_loc \in ExpLocs
    /\ max_iterations \in 1..MaxIter
    /\ convergence_tolerance \in Tolerances
    /\ \E beta \in Betas, mu \in Mus, sigma \in Sigmas, proportion \in Proportions :
          /\ heap = [o \in Objs |-> GaussianExponentialParameters(beta, mu, sigma, proportion)]
          /\ expon = Frozen(exp_loc, beta)
          /\ norm = Frozen(mu, sigma)
    /\ parameters = "a"
    /\ parameters_updated = "b"
    /\ pc = "idle"
    /\ ip = 0
    /\ iters = 0
    /\ steps = 0
    /\ fits = 0
    /\ total_steps = 0
    /\ entry = [norm |-> norm, expon |-> expon, updated |-> heap["b"]]
    /\ trace = <<>>
    /\ resp = <<>>
    /\ resp_sum = 0
    /\ stop_dist = 0
    /\ first_step = NoParams
    /\ last_step = NoParams
    /\ prev_fit = NoFit

\* ----------------------------------------------------------- one EM step
\* _em_step with the densities refreshed before sigma is updated.
em_step_pdfs_before_sigma ==
    <<"_sync_parameters", "_update_beta", "_update_mu", "_update_pdfs",
      "_update_sigma", "_update_proportion">>

\* The calls of _em_step, in order.
em_step == <<"_sync_parameters", "_update_beta", "_update_mu", "_update_sigma",
             "_update_pdfs", "_update_proportion">>

\* The next call of the running step is `name`.
At(name) == pc = "em_step" /\ ip \in 1..Len(em_step) /\ em_step[ip] = name

\* Move past the call `name`; after the last one the step is complete and
\* fit() counts it (iters = 1 after the first step, iters += 1 after the others).
Advance(name) ==
    /\ trace' = Append(trace, name)
    /\ IF ip = Len(em_step)
       THEN /\ pc' = "while"
            /\ ip' = 0
            /\ iters' = iters + 1
            /\ steps' = steps + 1
            /\ total_steps' = total_steps + 1
       ELSE /\ pc' = pc
            /\ ip' = ip + 1
            /\ UNCHANGED <<iters, steps, total_steps>>

\* _sync_parameters: self.parameters = deepcopy(self.parameters_updated).
\* The copy is a new object; the object self.parameters referred to is
\* dropped, so its identity is the one the copy takes.
sync_parameters ==
    LET copy == CHOOSE o \in Objs : o # parameters_updated
    IN  /\ heap' = [heap EXCEPT ![copy] = heap[parameters_updated]]
        /\ parameters' = copy
        /\ UNCHANGED parameters_updated

\* _em_step's call of _sync_parameters.
em_sync ==
    /\ At("_sync_parameters")
    /\ sync_parameters
    /\ entry' = [norm |-> norm, expon |-> expon, updated |-> PU]
    /\ Advance("_sync_parameters")
    /\ UNCHANGED <<inputs, norm, expon, fits, resp, resp_sum, stop_dist, first_step, last_step, prev_fit>>

\* _update_beta
update_beta ==
    /\ At("_update_beta")
    /\ heap' = [heap EXCEPT ![parameters_updated].beta = BetaUpdate(norm, expon, P.proportion)]
    /\ resp' = Responsibilities
    /\ Advance("_update_beta")
    /\ UNCHANGED <<inputs, parameters, parameters_updated, norm, expon, fits, entry,
                   resp_sum, stop_dist, first_step, last_step, prev_fit>>

\* _update_mu
update_mu ==
    /\ At("_update_mu")
    /\ heap' = [heap EXCEPT ![parameters_updated].mu = MuUpdate(norm, expon, P.proportion)]
    /\ resp' = Responsibilities
    /\ resp_sum' = RespSum(norm, expon, P.proportion)
    /\ Advance("_update_mu")
    /\ UNCHANGED <<inputs, parameters, parameters_updated, norm, expon, fits, entry,
                   stop_dist, first_step, last_step, prev_fit>>

\* _update_sigma: math.sqrt raises ValueError on a negative sigma_squared,
\* and the exception leaves fit().
update_sigma ==
    /\ At("_update_sigma")
    /\ LET sigma_squared == SigmaSquared(norm, expon, P.proportion, PU.mu)
       IN  IF SqrtRaises(sigma_squared)
           THEN /\ pc' = "raised"
                /\ UNCHANGED <<heap, ip, iters, steps, total_steps, trace>>
           ELSE /\ heap' = [heap EXCEPT ![parameters_updated].sigma = Sqrt(sigma_squared)]
                /\ Advance("_update_sigma")
    /\ resp' = Responsibilities
    /\ UNCHANGED <<inputs, parameters, parameters_updated, norm, expon, fits, entry,
                   resp_sum, stop_dist, first_step, last_step, prev_fit>>

\* _update_pdfs refreshing from self.parameters instead of self.parameters_updated.
update_pdfs_from_current ==
    /\ At("_update_pdfs")
    /\ norm' = Frozen(P.mu, P.sigma)
    /\ expon' = Frozen(exp_loc, P.beta)
    /\ Advance("_update_pdfs")
    /\ UNCHANGED <<inputs, heap, parameters, parameters_updated, fits, entry, resp,
                   resp_sum, stop_dist, first_step, last_step, prev_fit>>

\* _update_pdfs
update_pdfs ==
    /\ At("_update_pdfs")
    /\ norm' = Frozen(PU.mu, PU.sigma)
    /\ expon' = Frozen(exp_loc, PU.beta)
    /\ Advance("_update_pdfs")
    /\ UNCHANGED <<inputs, heap, parameters, parameters_updated, fits, entry, resp,
                   resp_sum, stop_dist, first_step, last_step, prev_fit>>

\* _update_proportion
update_proportion ==
    /\ At("_update_proportion")
    /\ heap' = [heap EXCEPT ![parameters_updated].proportion = ProportionUpdate(norm, expon)]
    /\ first_step' = IF steps = 0 THEN heap'[parameters_updated] ELSE first_step
    /\ last_step' = heap'[parameters_updated]
    /\ Advance("_update_proportion")
    /\ UNCHANGED <<inputs, parameters, parameters_updated, norm, expon, fits, entry,
                   resp, resp_sum, stop_dist, prev_fit>>

\* ---------------------------------------------------------------- fit()
\* The convergence metric taken as the smallest difference instead of the largest.
check_parameter_differences_min ==
    LET diffs == [i \in 1..4 |-> Abs(Sub(as_list(P)[i], as_list(PU)[i]))]
    IN  IF \E i \in 1..4 : IsNaN(diffs[i]) THEN NaN
        ELSE CHOOSE d \in {diffs[i] : i \in 1..4} : \A i \in 1..4 : ~Gt(d, diffs[i])

\* _check_parameter_differences
check_parameter_differences == max_parameter_difference(P, PU)

\* fit() is called: its first _em_step begins.
fit_call ==
    /\ pc = "idle"
    /\ fits < MaxFits
    /\ pc' = "em_step"
    /\ ip' = 1
    /\ iters' = 0
    /\ steps' = 0
    /\ trace' = <<>>
    /\ prev_fit' = [valid |-> fits > 0, result |-> PU, dist |-> stop_dist, steps |-> steps]
    /\ UNCHANGED <<inputs, heap, parameters, parameters_updated, norm, expon, fits,
                   total_steps, entry, resp, resp_sum, stop_dist, first_step, last_step>>

\* The loop condition with the bound off by one (iters <= max_iterations).
LoopContinues_off_by_one ==
    iters <= max_iterations /\ Gt(check_parameter_differences, convergence_tolerance)

\* The condition of fit()'s while loop.
LoopContinues ==
    iters < max_iterations /\ Gt(check_parameter_differences, convergence_tolerance)

\* The loop test of fit(). `and` evaluates its right operand, the distance,
\* only when iters < self.max_iterations.
while_test ==
    /\ pc = "while"
    /\ stop_dist' = IF iters < max_iterations THEN check_parameter_differences ELSE stop_dist
    /\ IF LoopContinues
       THEN /\ pc' = "em_step"
            /\ ip' = 1
            /\ trace' = <<>>
       ELSE /\ pc' = "return"
            /\ UNCHANGED <<ip, trace>>
    /\ UNCHANGED <<inputs, heap, parameters, parameters_updated, norm, expon, iters,
                   steps, fits, total_steps, entry, resp, resp_sum, first_step, last_step, prev_fit>>

\* fit() returning without its final _sync_parameters.
fit_return_without_sync ==
    /\ pc = "return"
    /\ pc' = "idle"
    /\ fits' = fits + 1
    /\ UNCHANGED <<inputs, heap, parameters, parameters_updated, norm, expon, ip, iters,
                   steps, total_steps, entry, trace, resp, resp_sum, stop_dist,
                   first_step, last_step, prev_fit>>

\* The last line of fit(): the final _sync_parameters, and the return.
fit_return ==
    /\ pc = "return"
    /\ sync_parameters
    /\ pc' = "idle"
    /\ fits' = fits + 1
    /\ UNCHANGED <<inputs, norm, expon, ip, iters, steps, total_steps, entry, trace,
                   resp, resp_sum, stop_dist, first_step, last_step, prev_fit>>

Next ==
    \/ fit_call
    \/ em_sync
    \/ update_beta
    \/ update_mu
    \/ update_sigma
    \/ update_pdfs
    \/ update_proportion
    \/ while_test
    \/ fit_return

Spec == Init /\ [][Next]_vars

\* ------------------------------------------------------------ properties
\* No call is in progress: after construction, after a completed EM step,
\* after fit() has returned.
BetweenOperations == pc \in {"idle", "while", "return"}

\* The four names of a parameter set's fields, in as_list order.
Fields == 1..4

\* |a_i - b_i|
FieldChange(a, b, i) == Abs(Sub(as_list(a)[i], as_list(b)[i]))

\* Field i is the same value in a and b, or differs by a finite amount of at most d.
ChangedAtMost(a, b, i, d) ==
    \/ as_list(a)[i] = as_list(b)[i]
    \/ IsFinite(FieldChange(a, b, i)) /\ FieldChange(a, b, i) <= d

\* Field i is the same value in a and b, or differs by a finite amount below d.
ChangedLessThan(a, b, i, d) ==
    \/ as_list(a)[i] = as_list(b)[i]
    \/ IsFinite(FieldChange(a, b, i)) /\ FieldChange(a, b, i) < d

\* The call `name` has been made by the current (or last completed) step.
Called(name) == \E j \in 1..Len(trace) : trace[j] = name

\* C1: a fit() call runs at least one and at most max_iterations EM steps and
\* raises nothing: a step is only ever begun while fewer than max_iterations
\* are complete, the loop test and the return are only reached with between 1
\* and max_iterations complete, no state is an exception leaving fit(), and a
\* step in progress always has a next call to make.
C1_FitRunsBetweenOneAndMaxIterationsSteps ==
    /\ pc # "raised"
    /\ pc = "em_step" => ip \in 1..Len(em_step)
    /\ pc = "em_step" => steps < max_iterations
    /\ pc \in {"while", "return"} => steps \in 1..max_iterations
    /\ (pc = "idle" /\ fits > 0) => steps \in 1..max_iterations

\* C1 witness: fit() has returned after exactly max_iterations > 1 steps, the
\* last of which still moved the parameters by more than the tolerance (the
\* bound stopped it).
C1_Witness ==
    /\ pc = "idle" /\ fits > 0
    /\ max_iterations > 1 /\ steps = max_iterations
    /\ Gt(max_parameter_difference(entry.updated, last_step), convergence_tolerance)

\* C2: when fit() has returned, self.parameters and self.parameters_updated
\* hold the same four values, those the last EM step of the call computed.
C2_ReturnCommitsLastStep ==
    (pc = "idle" /\ fits > 0) => (P = PU /\ P = last_step)

\* C2 witness: fit() has returned and its last step had changed the parameters.
C2_Witness ==
    /\ pc = "idle" /\ fits > 0
    /\ last_step # entry.updated
    /\ P = last_step

\* C3: between operations the live Gaussian density is frozen at
\* parameters_updated's (mu, sigma) and the live exponential density at
\* (exp_loc, parameters_updated's beta).
C3_DensitiesFollowCandidate ==
    BetweenOperations =>
        /\ norm = Frozen(PU.mu, PU.sigma)
        /\ expon = Frozen(exp_loc, PU.beta)

\* C3 witness: a step has completed that moved mu, sigma and beta, and the
\* densities are those of the new values.
C3_Witness ==
    /\ pc = "while"
    /\ PU.mu # P.mu /\ PU.sigma # P.sigma /\ PU.beta # P.beta
    /\ norm = Frozen(PU.mu, PU.sigma)
    /\ expon = Frozen(exp_loc, PU.beta)

\* The fit() call before the current one stopped because its distance was a
\* number at or below the tolerance: it left the loop before the bound, on a
\* distance it evaluated.
PreviousFitConverged ==
    /\ prev_fit.valid
    /\ prev_fit.steps < max_iterations
    /\ IsFinite(prev_fit.dist)
    /\ prev_fit.dist <= convergence_tolerance

\* All four fields of q are numbers.
AllFinite(q) == \A i \in Fields : IsFinite(as_list(q)[i])

\* C4 as stated, on the runs whose parameters are numbers: after a fit() that
\* stopped on the tolerance, a second fit() runs at most one EM step (it never
\* begins a second one) and leaves every parameter changed by less than the
\* tolerance.
C4_Original ==
    PreviousFitConverged =>
        /\ (pc = "em_step" /\ steps > 0 /\ AllFinite(prev_fit.result) /\ AllFinite(PU)) =>
              FALSE
        /\ (pc = "idle" /\ fits > 1 /\ AllFinite(prev_fit.result) /\ AllFinite(PU)) =>
              /\ steps <= 1
              /\ \A i \in Fields :
                    ChangedLessThan(PU, prev_fit.result, i, convergence_tolerance)

\* C4 as amended: after a fit() that stopped on the tolerance, a second fit()
\* starts its first step from the first fit's result and runs between 1 and
\* max_iterations EM steps; it runs exactly one if and only if max_iterations
\* is 1 or the distance between the first fit's result and that step's outcome
\* is not greater than the tolerance, and in the latter case, the parameters
\* being numbers, none has moved by more than the tolerance.
C4_RefitStopsAfterOneStepIffWithinTolerance ==
    /\ (pc = "while" /\ steps = 1 /\ PreviousFitConverged) => P = prev_fit.result
    /\ (pc = "idle" /\ fits > 1 /\ PreviousFitConverged) =>
          /\ steps \in 1..max_iterations
          /\ steps = 1 <=>
                \/ max_iterations = 1
                \/ ~Gt(max_parameter_difference(prev_fit.result, first_step),
                       convergence_tolerance)
          /\ (steps = 1 /\ max_iterations > 1 /\ AllFinite(PU)) =>
                \A i \in Fields :
                    ChangedAtMost(PU, prev_fit.result, i, convergence_tolerance)

\* C4 witness: a second fit() after a converged first one has returned after
\* more than one step, the first fit's result and the outcome of the first
\* additional step being numbers farther apart than the tolerance.
C4_Witness ==
    /\ pc = "idle" /\ fits > 1 /\ PreviousFitConverged
    /\ steps > 1
    /\ AllFinite(prev_fit.result) /\ AllFinite(first_step)
    /\ Gt(max_parameter_difference(prev_fit.result, first_step), convergence_tolerance)

\* C5: with self.parameters.proportion = 0 every responsibility computed is
\* exactly 0, whatever the point and whatever the two densities are there.
C5_ZeroProportionGivesZeroResponsibility ==
    (pc \in {"em_step", "while"} /\ Called("_update_beta") /\ Eq(P.proportion, 0)) =>
        \A i \in 1..Len(resp) : resp[i] = 0

\* C5 witness: responsibilities have just been computed with proportion 0
\* at a point where both densities are NaN.
C5_Witness ==
    /\ pc = "em_step" /\ Called("_update_beta") /\ ~Called("_update_pdfs")
    /\ Eq(P.proportion, 0)
    /\ \E i \in 1..Len(data) :
          /\ IsNaN(expon_pdf(expon, data[i]))
          /\ IsNaN(norm_pdf(norm, data[i]))
          /\ resp[i] = 0

\* C6 as stated, on the distance fit() evaluated in its loop test: it is the
\* largest of the four |a_i - b_i|, the same in both directions, and zero if
\* and only if the four fields are pairwise equal.
C6_Original ==
    (pc = "return" /\ steps < max_iterations) =>
        /\ \E i \in Fields : stop_dist = FieldChange(P, PU, i)
        /\ stop_dist = max_parameter_difference(PU, P)
        /\ stop_dist = 0 <=> P = PU

\* C7: a completed EM step has made its calls in the order sync, beta, mu,
\* sigma, pdfs, proportion; beta, mu and sigma are the updates under the
\* densities of the step's entry and self.parameters.proportion, sigma around
\* the mu of this step; the densities are unchanged until all three are
\* written; proportion is the update under the refreshed densities.
C7_StepOrder ==
    /\ (pc = "em_step" /\ Called("_sync_parameters") /\ ~Called("_update_pdfs")) =>
          (norm = entry.norm /\ expon = entry.expon)
    /\ Called("_update_pdfs") =>
          (Called("_update_beta") /\ Called("_update_mu") /\ Called("_update_sigma"))
    /\ pc = "while" =>
          /\ trace = <<"_sync_parameters", "_update_beta", "_update_mu", "_update_sigma",
                       "_update_pdfs", "_update_proportion">>
          /\ P = entry.updated
          /\ PU.beta = BetaUpdate(entry.norm, entry.expon, P.proportion)
          /\ PU.mu = MuUpdate(entry.norm, entry.expon, P.proportion)
          /\ PU.sigma = Sqrt(SigmaSquared(entry.norm, entry.expon, P.proportion, PU.mu))
          /\ PU.proportion = ProportionUpdate(Frozen(PU.mu, PU.sigma), Frozen(exp_loc, PU.beta))

\* C7 witness: a step has completed in which mu moved, so that sigma around
\* the new mu differs from sigma around the old one, and the refreshed
\* densities give another proportion than those of the step's entry.
C7_Witness ==
    /\ pc = "while"
    /\ IsFinite(PU.sigma) /\ IsFinite(PU.mu) /\ IsFinite(P.mu)
    /\ PU.sigma # Sqrt(SigmaSquared(entry.norm, entry.expon, P.proportion, P.mu))
    /\ PU.proportion # ProportionUpdate(entry.norm, entry.expon)

\* C8 as stated: at the loop test self.parameters holds the values from before
\* the step just completed, in an object of its own, and whenever the loop is
\* left with fewer than max_iterations steps run, that step changed no
\* parameter by more than the tolerance.
C8_Original ==
    /\ pc = "while" => (P = entry.updated /\ parameters # parameters_updated)
    /\ (pc = "return" /\ steps < max_iterations) =>
          \A i \in Fields : ChangedAtMost(PU, entry.updated, i, convergence_tolerance)

\* C9: when the responsibilities of a step sum to zero (as they do whenever
\* self.parameters.proportion is 0), the mu and sigma updates write NaN into
\* parameters_updated, nothing is raised, and the step and fit() go on.
C9_ZeroResponsibilitySumWritesNaN ==
    /\ pc # "raised"
    /\ (pc \in {"em_step", "while"} /\ Called("_update_mu") /\ Eq(P.proportion, 0)) =>
          Eq(resp_sum, 0)
    /\ (pc \in {"em_step", "while"} /\ Called("_update_mu") /\ Eq(resp_sum, 0)) =>
          IsNaN(PU.mu)
    /\ (pc \in {"em_step", "while"} /\ Called("_update_sigma") /\ Eq(resp_sum, 0)) =>
          IsNaN(PU.sigma)

\* C9 witness: a step has completed whose responsibilities summed to zero
\* although the proportion was not 0 at construction: the hard proportion
\* update of the step before had produced it.
C9_Witness ==
    /\ pc = "while" /\ steps > 1 /\ fits = 0
    /\ ~Eq(prev_fit.result.proportion, 0)
    /\ Eq(resp_sum, 0) /\ Eq(P.proportion, 0)
    /\ IsNaN(PU.mu) /\ IsNaN(PU.sigma)

\* C10: once an EM step has completed, parameters_updated.proportion is k/N
\* for an integer k in 0..N, so it lies in [0, 1]; between operations k is the
\* number of points whose Gaussian log-density exceeds their exponential
\* log-density under the live (refreshed) densities.
C10_ProportionIsCountOverN ==
    total_steps > 0 =>
        /\ \E k \in 0..Len(data) : PU.proportion = Div(k * Scale, Len(data) * Scale)
        /\ PU.proportion >= 0 /\ PU.proportion <= Scale
        /\ BetweenOperations =>
              PU.proportion = Div(GaussianTotal(norm, expon) * Scale, Len(data) * Scale)

\* C10 witness: the first step has completed on more than one point with some
\* but not all points counted as Gaussian, from an initial proportion that is
\* no multiple of 1/N.
C10_Witness ==
    /\ pc = "while" /\ total_steps = 1
    /\ Len(data) > 1
    /\ \A k \in 0..Len(data) : entry.updated.proportion # Div(k * Scale, Len(data) * Scale)
    /\ GaussianTotal(norm, expon) \in 1..(Len(data) - 1)
    /\ PU.proportion > 0 /\ PU.proportion < Scale

=============================================================================
